---------------------------- MODULE Spec2Model ----------------------------
(***************************************************************************)
(* Crestron XSIG / ISC codec (crestron_xsig.go).                           *)
(*                                                                         *)
(* Two layers are modelled:                                                *)
(*   - the value codec: MarshalBinary / UnmarshalBinary of the five kinds, *)
(*     as operators computed bit for bit as the Go code computes them;     *)
(*   - the stream decoder ISCDecoder.Decode over a bufio.Reader.           *)
(*                                                                         *)
(* Bytes are integers 0..255, byte slices are sequences of them.  Errors   *)
(* are the names of the Go error variables, "nil" for no error.            *)
(***************************************************************************)
EXTENDS Integers, Sequences, FiniteSets, TLC

VARIABLES
    \* ---- stream decoder (ISCDecoder and its source) ----
    d_r,        \* ISCDecoder.r: "reader" when NewISCDecoder built it, else "nil"
    d_err,      \* ISCDecoder.err: the sticky error
    src,        \* bytes of the source not yet consumed through d.r
    v,          \* value returned by the last Decode call
    err,        \* error returned by the last Decode call
    calls,      \* number of Decode calls made so far
    sent,       \* history: the values whose encodings were written, in order
    raw,        \* history: TRUE once a byte was written that is no whole encoding
    \* ---- value codec, one Marshal/Unmarshal exercise ----
    pc,         \* "idle" | "value" | "buffer" | "marshalled" | "roundtrip" | "decoded"
    t,          \* the value handed to MarshalBinary (or the receiver's kind)
    buf,        \* the bytes MarshalBinary returned, or the buffer to decode
    merr,       \* the error MarshalBinary returned
    u,          \* the receiver after UnmarshalBinary
    uerr        \* the error UnmarshalBinary returned

vars == <<d_r, d_err, src, v, err, calls, sent, raw, pc, t, buf, merr, u, uerr>>

streamVars == <<d_r, d_err, src, v, err, calls, sent, raw>>
codecVars == <<pc, t, buf, merr, u, uerr>>

----------------------------------------------------------------------------
(* Bounds of the model *)

\* most bytes the source holds unread at any time when fed byte by byte
MaxSrc == 4
\* most whole encodings written to the source in one behaviour
MaxFrames == 3
\* most Decode calls in one behaviour
MaxCalls == 3
\* longest enumerated serial payload (the 252/253-byte payloads are extra)
MaxPayload == 2
\* longest arbitrary buffer handed directly to UnmarshalBinary
MaxBuf == 4

----------------------------------------------------------------------------
(* Errors *)

NoError == "nil"
ErrIndexRange == "ErrIndexRange"
ErrSerialLength == "ErrSerialLength"
ErrSerialInvalidByte == "ErrSerialInvalidByte"
ErrDecodeLength == "ErrDecodeLength"
ErrDecodeIllegal == "ErrDecodeIllegal"
\* errors.New("ISCDecoder in invalid state")
ErrInvalidState == "ErrInvalidState"
\* io.EOF and io.ErrUnexpectedEOF, as bufio.Reader and io.ReadFull return them
EOF == "EOF"
ErrUnexpectedEOF == "ErrUnexpectedEOF"

----------------------------------------------------------------------------
(* Go integer arithmetic *)

RECURSIVE BitAnd(_, _)
\* a & b on non-negative integers
BitAnd(a, b) ==
    IF a = 0 \/ b = 0 THEN 0
    ELSE (a % 2) * (b % 2) + 2 * BitAnd(a \div 2, b \div 2)

RECURSIVE BitOr(_, _)
\* a | b on non-negative integers
BitOr(a, b) ==
    IF a = 0 THEN b
    ELSE IF b = 0 THEN a
    ELSE (IF (a % 2) + (b % 2) > 0 THEN 1 ELSE 0) + 2 * BitOr(a \div 2, b \div 2)

\* x >> n
Shr(x, n) == x \div (2 ^ n)

\* byte(x): conversion to uint8 keeps the low 8 bits
byte(x) == x % 256

\* uint16(x) << n: the shift is done in 16 bits, higher bits are lost
Shl16(x, n) == (x * (2 ^ n)) % 65536

\* uint(x) << n: no overflow for the operands used here (uint is 32 bits or more)
ShlUint(x, n) == x * (2 ^ n)

----------------------------------------------------------------------------
(* Values of the five kinds *)

ISCDigitalTransition(i, b) == [kind |-> "Digital", Index |-> i, Value |-> b]
ISCAnalogTransition(i, n) == [kind |-> "Analog", Index |-> i, Value |-> n]
ISCSerialTransition(i, s) == [kind |-> "Serial", Index |-> i, Value |-> s]
ISCClearOperation == [kind |-> "Clear"]
ISCRefreshOperation == [kind |-> "Refresh"]
\* the nil interface value
NilValue == [kind |-> "nil"]

\* `var res T`: the zero value of each kind
ZeroValue(k) ==
    CASE k = "Digital" -> ISCDigitalTransition(0, FALSE)
      [] k = "Analog"  -> ISCAnalogTransition(0, 0)
      [] k = "Serial"  -> ISCSerialTransition(0, <<>>)
      [] k = "Clear"   -> ISCClearOperation
      [] k = "Refresh" -> ISCRefreshOperation

\* result of a MarshalBinary call; a nil slice is the empty sequence
MarshalResult(b, e) == [buf |-> b, err |-> e]
\* result of an UnmarshalBinary call: the receiver afterwards and the error
UnmarshalResult(r, e) == [val |-> r, err |-> e]

----------------------------------------------------------------------------
(* Value codec *)

\* func (t *ISCDigitalTransition) MarshalBinary() ([]byte, error)
ISCDigitalTransition_MarshalBinary(x) ==
    IF x.Index > 4095 THEN MarshalResult(<<>>, ErrIndexRange)
    ELSE LET b0 == BitOr(byte(128), byte(BitAnd(31, Shr(x.Index, 7))))
             \* contains the complement of the value
             b0c == IF ~x.Value THEN BitOr(b0, 32) ELSE b0
             b1 == byte(BitAnd(127, x.Index))
         IN MarshalResult(<<b0c, b1>>, NoError)

\* variant: the value bit is read uncomplemented
ISCDigitalTransition_UnmarshalBinary_Uncomplemented(recv, b) ==
    IF Len(b) < 2 THEN UnmarshalResult(recv, ErrDecodeLength)
    ELSE IF BitAnd(b[1], 192) # 128 \/ BitAnd(b[2], 128) # 0
         THEN UnmarshalResult(recv, ErrDecodeIllegal)
    ELSE UnmarshalResult(
             ISCDigitalTransition(BitOr(b[2], ShlUint(BitAnd(31, b[1]), 7)),
                                  BitAnd(b[1], 32) # 0),
             NoError)

\* func (t *ISCDigitalTransition) UnmarshalBinary(buf []byte) error
ISCDigitalTransition_UnmarshalBinary(recv, b) ==
    IF Len(b) < 2 THEN UnmarshalResult(recv, ErrDecodeLength)
    ELSE IF BitAnd(b[1], 192) # 128 \/ BitAnd(b[2], 128) # 0
         THEN UnmarshalResult(recv, ErrDecodeIllegal)
    ELSE UnmarshalResult(
             ISCDigitalTransition(BitOr(b[2], ShlUint(BitAnd(31, b[1]), 7)),
                                  BitAnd(b[1], 32) = 0),
             NoError)

\* func (t *ISCAnalogTransition) MarshalBinary() ([]byte, error)
ISCAnalogTransition_MarshalBinary(x) ==
    IF x.Index > 1023 THEN MarshalResult(<<>>, ErrIndexRange)
    ELSE LET b0 == BitOr(BitOr(byte(192), byte(Shl16(Shr(x.Value, 14), 4))),
                         byte(Shr(x.Index, 7)))
             b1 == byte(BitAnd(127, x.Index))
             b2 == byte(BitAnd(127, Shr(x.Value, 7)))
             b3 == byte(BitAnd(127, x.Value))
         IN MarshalResult(<<b0, b1, b2, b3>>, NoError)

\* func (t *ISCAnalogTransition) UnmarshalBinary(buf []byte) error
\* Value is assembled in uint16: uint16(0x30&buf[0])<<14 is shifted in 16 bits.
ISCAnalogTransition_UnmarshalBinary(recv, b) ==
    IF Len(b) < 4 THEN UnmarshalResult(recv, ErrDecodeLength)
    ELSE IF \/ BitAnd(b[1], 200) # 192
            \/ BitAnd(b[2], 128) # 0
            \/ BitAnd(b[3], 128) # 0
            \/ BitAnd(b[4], 128) # 0
         THEN UnmarshalResult(recv, ErrDecodeIllegal)
    ELSE UnmarshalResult(
             ISCAnalogTransition(
                 BitOr(b[2], ShlUint(BitAnd(7, b[1]), 7)),
                 BitOr(BitOr(Shl16(BitAnd(48, b[1]), 14), Shl16(b[3], 7)), b[4])),
             NoError)

\* variant: the length limit is off by one (>= instead of >)
ISCSerialTransition_MarshalBinary_OffByOne(x) ==
    IF x.Index > 1023 THEN MarshalResult(<<>>, ErrIndexRange)
    ELSE IF Len(x.Value) >= 252 THEN MarshalResult(<<>>, ErrSerialLength)
    ELSE IF \E j \in 1..Len(x.Value) : x.Value[j] = 255
         THEN MarshalResult(<<>>, ErrSerialInvalidByte)
    ELSE MarshalResult(
             <<BitOr(byte(200), byte(Shr(x.Index, 7))), byte(BitAnd(127, x.Index))>>
                 \o x.Value \o <<255>>,
             NoError)

\* func (t *ISCSerialTransition) MarshalBinary() ([]byte, error)
\* buf has len(Value)+3 bytes: copy(buf[2:], Value) fills 2..len+1, the last is 0xff.
ISCSerialTransition_MarshalBinary(x) ==
    IF x.Index > 1023 THEN MarshalResult(<<>>, ErrIndexRange)
    ELSE IF Len(x.Value) > 252 THEN MarshalResult(<<>>, ErrSerialLength)
    ELSE IF \E j \in 1..Len(x.Value) : x.Value[j] = 255
         THEN MarshalResult(<<>>, ErrSerialInvalidByte)
    ELSE MarshalResult(
             <<BitOr(byte(200), byte(Shr(x.Index, 7))), byte(BitAnd(127, x.Index))>>
                 \o x.Value \o <<255>>,
             NoError)

\* variant: a buffer without the trailing sentinel is reported as short
ISCSerialTransition_UnmarshalBinary_SentinelShort(recv, b) ==
    IF Len(b) < 3 THEN UnmarshalResult(recv, ErrDecodeLength)
    ELSE IF b[Len(b)] # 255 THEN UnmarshalResult(recv, ErrDecodeLength)
    ELSE IF BitAnd(b[1], 248) # 200 \/ BitAnd(b[2], 128) # 0
         THEN UnmarshalResult(recv, ErrDecodeIllegal)
    ELSE UnmarshalResult(
             ISCSerialTransition(BitOr(b[2], ShlUint(BitAnd(7, b[1]), 7)),
                                 SubSeq(b, 3, Len(b) - 1)),
             NoError)

\* func (t *ISCSerialTransition) UnmarshalBinary(buf []byte) error
\* Value = make([]byte, len(buf)-3); copy(Value, buf[2:]) takes len(buf)-3 bytes.
ISCSerialTransition_UnmarshalBinary(recv, b) ==
    IF Len(b) < 3 THEN UnmarshalResult(recv, ErrDecodeLength)
    ELSE IF b[Len(b)] # 255 THEN UnmarshalResult(recv, ErrDecodeIllegal)
    ELSE IF BitAnd(b[1], 248) # 200 \/ BitAnd(b[2], 128) # 0
         THEN UnmarshalResult(recv, ErrDecodeIllegal)
    ELSE UnmarshalResult(
             ISCSerialTransition(BitOr(b[2], ShlUint(BitAnd(7, b[1]), 7)),
                                 SubSeq(b, 3, Len(b) - 1)),
             NoError)

\* func (o *ISCClearOperation) MarshalBinary() ([]byte, error)
ISCClearOperation_MarshalBinary(x) == MarshalResult(<<252>>, NoError)

\* func (o *ISCClearOperation) UnmarshalBinary(buf []byte) error
ISCClearOperation_UnmarshalBinary(recv, b) ==
    IF Len(b) < 1 THEN UnmarshalResult(recv, ErrDecodeLength)
    ELSE IF b[1] # 252 THEN UnmarshalResult(recv, ErrDecodeIllegal)
    ELSE UnmarshalResult(recv, NoError)

\* func (o *ISCRefreshOperation) MarshalBinary() ([]byte, error)
ISCRefreshOperation_MarshalBinary(x) == MarshalResult(<<253>>, NoError)

\* func (o *ISCRefreshOperation) UnmarshalBinary(buf []byte) error
ISCRefreshOperation_UnmarshalBinary(recv, b) ==
    IF Len(b) < 1 THEN UnmarshalResult(recv, ErrDecodeLength)
    ELSE IF b[1] # 253 THEN UnmarshalResult(recv, ErrDecodeIllegal)
    ELSE UnmarshalResult(recv, NoError)

\* MarshalBinary of the value's own kind
MarshalBinary(x) ==
    CASE x.kind = "Digital" -> ISCDigitalTransition_MarshalBinary(x)
      [] x.kind = "Analog"  -> ISCAnalogTransition_MarshalBinary(x)
      [] x.kind = "Serial"  -> ISCSerialTransition_MarshalBinary(x)
      [] x.kind = "Clear"   -> ISCClearOperation_MarshalBinary(x)
      [] x.kind = "Refresh" -> ISCRefreshOperation_MarshalBinary(x)

----------------------------------------------------------------------------
(* The byte source behind d.r.  The bufio.Reader and the io.Reader under it   *)
(* are one queue of unread bytes; a read past its end reports io.EOF (the     *)
(* source is at its end for now) and bufio clears that error, so that bytes   *)
(* written later are read by later calls.                                     *)

ReadResult(d, e, rest) == [data |-> d, err |-> e, rest |-> rest]

\* d.r.Peek(1): the first unread byte, not consumed; io.EOF when there is none
Peek1(s) ==
    IF Len(s) >= 1 THEN ReadResult(<<s[1]>>, NoError, s)
    ELSE ReadResult(<<>>, EOF, s)

\* io.ReadFull(d.r, buf[0:n]): n bytes, or io.EOF when none could be read, or
\* io.ErrUnexpectedEOF (the bytes read are consumed) when fewer than n could
ReadFull(s, n) ==
    IF Len(s) >= n THEN ReadResult(SubSeq(s, 1, n), NoError, SubSeq(s, n + 1, Len(s)))
    ELSE IF Len(s) = 0 THEN ReadResult(<<>>, EOF, s)
    ELSE ReadResult(s, ErrUnexpectedEOF, <<>>)

\* d.r.ReadBytes(delim): the bytes up to and including the first delim; when the
\* source ends before a delim, all the bytes and the source's error, io.EOF
ReadBytes(s, delim) ==
    IF \E i \in 1..Len(s) : s[i] = delim
    THEN LET n == CHOOSE i \in 1..Len(s) :
                      s[i] = delim /\ \A j \in 1..(i - 1) : s[j] # delim
         IN ReadResult(SubSeq(s, 1, n), NoError, SubSeq(s, n + 1, Len(s)))
    ELSE ReadResult(s, EOF, <<>>)

----------------------------------------------------------------------------
(* ISCDecoder *)

\* buf := make([]byte, 256) after n bytes were read into buf[0:n]
ScratchBuf(data) == data \o [i \in 1..(256 - Len(data)) |-> 0]

\* variant: the analog pattern is tested with the coarse mask 0xC0
KindOf_CoarseAnalogMask(p0) ==
    IF p0 = 252 THEN "Clear"
    ELSE IF p0 = 253 THEN "Refresh"
    ELSE IF BitAnd(p0, 192) = 128 THEN "Digital"
    ELSE IF BitAnd(p0, 192) = 192 THEN "Analog"
    ELSE IF BitAnd(p0, 248) = 200 THEN "Serial"
    ELSE "none"

\* the chain of tests on the peeked byte p[0], in the order Decode makes them
KindOf(p0) ==
    IF p0 = 252 THEN "Clear"
    ELSE IF p0 = 253 THEN "Refresh"
    ELSE IF BitAnd(p0, 192) = 128 THEN "Digital"
    ELSE IF BitAnd(p0, 200) = 192 THEN "Analog"
    ELSE IF BitAnd(p0, 248) = 200 THEN "Serial"
    ELSE "none"

\* what a Decode call hands back and leaves behind
DecodeResult(val, e, rest) == [v |-> val, err |-> e, src |-> rest]

\* the read of one kind's bytes followed by `err = res.UnmarshalBinary(..); v = res`;
\* a failed read returns before v is assigned
ReadThenUnmarshal(k, rd) ==
    IF rd.err # NoError THEN DecodeResult(NilValue, rd.err, rd.rest)
    ELSE LET r == CASE k = "Clear"   ->
                         ISCClearOperation_UnmarshalBinary(ZeroValue(k), rd.data)
                    [] k = "Refresh" ->
                         ISCRefreshOperation_UnmarshalBinary(ZeroValue(k), rd.data)
                    [] k = "Digital" ->
                         ISCDigitalTransition_UnmarshalBinary(ZeroValue(k), rd.data)
                    [] k = "Analog"  ->
                         ISCAnalogTransition_UnmarshalBinary(ZeroValue(k),
                                                             ScratchBuf(rd.data))
                    [] k = "Serial"  ->
                         ISCSerialTransition_UnmarshalBinary(ZeroValue(k), rd.data)
         IN DecodeResult(r.val, r.err, rd.rest)

\* Decode from the Peek on: the sticky error was nil
DecodeFrom(s) ==
    LET p == Peek1(s)
    IN IF p.err # NoError THEN DecodeResult(NilValue, p.err, s)
       ELSE LET k == KindOf(p.data[1])
            IN CASE k = "Clear"   -> ReadThenUnmarshal(k, ReadFull(s, 1))
                 [] k = "Refresh" -> ReadThenUnmarshal(k, ReadFull(s, 1))
                 [] k = "Digital" -> ReadThenUnmarshal(k, ReadFull(s, 2))
                 [] k = "Analog"  -> ReadThenUnmarshal(k, ReadFull(s, 4))
                 [] k = "Serial"  -> ReadThenUnmarshal(k, ReadBytes(s, 255))
                 \* no pattern matched: the final bare return, v and err both nil
                 [] OTHER         -> DecodeResult(NilValue, NoError, s)

\* variant: the sticky error is not looked at
DecodeCall_NoStickyCheck(derr, s) == DecodeFrom(s)

\* Decode with d.r set: a sticky error is returned at once, nothing is read
DecodeCall(derr, s) ==
    IF derr # NoError THEN DecodeResult(NilValue, derr, s)
    ELSE DecodeFrom(s)

\* func NewISCDecoder(r io.Reader) *ISCDecoder, on a source holding nothing yet
NewISCDecoder ==
    /\ d_r = "reader"
    /\ d_err = NoError
    /\ src = <<>>
    /\ v = NilValue
    /\ err = NoError
    /\ calls = 0
    /\ sent = <<>>
    /\ raw = FALSE

\* var d ISCDecoder: the zero value, which no reader backs
ZeroISCDecoder ==
    /\ d_r = "nil"
    /\ d_err = NoError
    /\ src = <<>>
    /\ v = NilValue
    /\ err = NoError
    /\ calls = 0
    /\ sent = <<>>
    /\ raw = FALSE

\* func (d *ISCDecoder) Decode() (v interface{}, err error)
\* The deferred function stores whatever error is returned in d.err.
Decode ==
    /\ calls < MaxCalls
    /\ calls' = calls + 1
    /\ IF d_r = "nil"
       THEN /\ v' = NilValue
            /\ err' = ErrInvalidState
            /\ UNCHANGED <<d_err, src>>
       ELSE LET r == DecodeCall(d_err, src)
            IN /\ v' = r.v
               /\ err' = r.err
               /\ src' = r.src
               /\ d_err' = r.err
    /\ UNCHANGED <<d_r, sent, raw>>
    /\ UNCHANGED codecVars

\* the values the peer sends in the framed behaviours
FrameValues ==
    << ISCClearOperation,
       ISCRefreshOperation,
       ISCDigitalTransition(1, TRUE),
       ISCDigitalTransition(4095, FALSE),
       ISCAnalogTransition(5, 100),
       ISCAnalogTransition(1023, 65535),
       ISCSerialTransition(2, <<65, 66>>),
       ISCSerialTransition(1023, <<>>) >>

\* the bytes the peer sends one at a time in the unframed behaviours: a byte with
\* the MSB clear, the first bytes of the multi-byte kinds, and 0xFF
StreamBytes == {0, 128, 192, 200, 255}

\* the peer writes the whole encoding of one valid value
WriteFrame ==
    /\ d_r = "reader"
    /\ ~raw
    /\ Len(sent) < MaxFrames
    /\ \E i \in 1..Len(FrameValues) :
          /\ src' = src \o MarshalBinary(FrameValues[i]).buf
          /\ sent' = Append(sent, FrameValues[i])
    /\ UNCHANGED <<d_r, d_err, v, err, calls, raw>>
    /\ UNCHANGED codecVars

\* the peer writes one byte, whatever it is
WriteByte ==
    /\ d_r = "reader"
    /\ sent = <<>>
    /\ Len(src) < MaxSrc
    /\ \E b \in StreamBytes : src' = Append(src, b)
    /\ raw' = TRUE
    /\ UNCHANGED <<d_r, d_err, v, err, calls, sent>>
    /\ UNCHANGED codecVars

CodecIdle ==
    /\ pc = "idle"
    /\ t = NilValue
    /\ buf = <<>>
    /\ merr = NoError
    /\ u = NilValue
    /\ uerr = NoError

Init == (NewISCDecoder \/ ZeroISCDecoder) /\ CodecIdle

Next ==
    \/ Decode
    \/ WriteFrame
    \/ WriteByte

Spec == Init /\ [][Next]_vars

----------------------------------------------------------------------------
(* Inputs of the codec exercise *)

\* all sequences over S of length 0..n
SeqsUpTo(S, n) == UNION {[1..k -> S] : k \in 0..n}

\* n bytes, all 'A', except byte 0xFF at the positions in ff
Payload(n, ff) == [i \in 1..n |-> IF i \in ff THEN 255 ELSE 65]

DigitalIndices == {0, 1, 127, 128, 4095, 4096, 4097, 8191}
AnalogIndices == {0, 5, 127, 128, 1023, 1024, 4095}
AnalogSamples == {0, 100, 127, 128, 16383, 16384, 32768, 49152, 65535}
SerialIndices == {0, 2, 128, 1023, 1024}
PayloadBytes == {0, 65, 255}
SerialPayloads ==
    SeqsUpTo(PayloadBytes, MaxPayload)
        \cup {Payload(252, {}), Payload(253, {}), Payload(252, {252}),
              Payload(252, {1}), Payload(251, {100}), Payload(253, {7})}

DigitalValues == {ISCDigitalTransition(i, b) : i \in DigitalIndices, b \in BOOLEAN}
AnalogValues == {ISCAnalogTransition(i, n) : i \in AnalogIndices, n \in AnalogSamples}
SerialValues == {ISCSerialTransition(i, s) : i \in SerialIndices, s \in SerialPayloads}

Kinds == {"Digital", "Analog", "Serial", "Clear", "Refresh"}

\* bytes of the buffers handed directly to UnmarshalBinary
BufBytes == {2, 128, 192, 200, 255}
RawBufs == SeqsUpTo(BufBytes, MaxBuf)

----------------------------------------------------------------------------
(* The codec exercise: marshal a value, then unmarshal what came out; or     *)
(* unmarshal an arbitrary buffer.                                            *)

CodecInit ==
    /\ NewISCDecoder
    /\ \/ /\ pc = "value"
          /\ \/ t \in DigitalValues
             \/ t \in AnalogValues
             \/ t \in SerialValues
             \/ t = ISCClearOperation
             \/ t = ISCRefreshOperation
          /\ buf = <<>>
       \/ /\ pc = "buffer"
          /\ \E k \in Kinds : t = ZeroValue(k)
          /\ buf \in RawBufs
    /\ merr = NoError
    /\ u = ZeroValue(t.kind)
    /\ uerr = NoError

\* x.MarshalBinary(): the returned bytes and error are kept
Marshalled(r) ==
    /\ buf' = r.buf
    /\ merr' = r.err
    /\ pc' = "marshalled"
    /\ UNCHANGED <<t, u, uerr>>
    /\ UNCHANGED streamVars

MarshalDigital ==
    /\ pc = "value" /\ t.kind = "Digital"
    /\ Marshalled(ISCDigitalTransition_MarshalBinary(t))

MarshalAnalog ==
    /\ pc = "value" /\ t.kind = "Analog"
    /\ Marshalled(ISCAnalogTransition_MarshalBinary(t))

MarshalSerial ==
    /\ pc = "value" /\ t.kind = "Serial"
    /\ Marshalled(ISCSerialTransition_MarshalBinary(t))

MarshalClear ==
    /\ pc = "value" /\ t.kind = "Clear"
    /\ Marshalled(ISCClearOperation_MarshalBinary(t))

MarshalRefresh ==
    /\ pc = "value" /\ t.kind = "Refresh"
    /\ Marshalled(ISCRefreshOperation_MarshalBinary(t))

\* a buffer is there to decode: the bytes a successful MarshalBinary returned, or
\* the buffer given
HasBuffer == (pc = "marshalled" /\ merr = NoError) \/ pc = "buffer"

\* var res T; err = res.UnmarshalBinary(buf): the receiver and error are kept
Unmarshalled(r) ==
    /\ u' = r.val
    /\ uerr' = r.err
    /\ pc' = IF pc = "marshalled" THEN "roundtrip" ELSE "decoded"
    /\ UNCHANGED <<t, buf, merr>>
    /\ UNCHANGED streamVars

UnmarshalDigital ==
    /\ HasBuffer /\ t.kind = "Digital"
    /\ Unmarshalled(ISCDigitalTransition_UnmarshalBinary(u, buf))

UnmarshalAnalog ==
    /\ HasBuffer /\ t.kind = "Analog"
    /\ Unmarshalled(ISCAnalogTransition_UnmarshalBinary(u, buf))

UnmarshalSerial ==
    /\ HasBuffer /\ t.kind = "Serial"
    /\ Unmarshalled(ISCSerialTransition_UnmarshalBinary(u, buf))

UnmarshalClear ==
    /\ HasBuffer /\ t.kind = "Clear"
    /\ Unmarshalled(ISCClearOperation_UnmarshalBinary(u, buf))

UnmarshalRefresh ==
    /\ HasBuffer /\ t.kind = "Refresh"
    /\ Unmarshalled(ISCRefreshOperation_UnmarshalBinary(u, buf))

CodecNext ==
    \/ MarshalDigital
    \/ MarshalAnalog
    \/ MarshalSerial
    \/ MarshalClear
    \/ MarshalRefresh
    \/ UnmarshalDigital
    \/ UnmarshalAnalog
    \/ UnmarshalSerial
    \/ UnmarshalClear
    \/ UnmarshalRefresh

CodecSpec == CodecInit /\ [][CodecNext]_vars

----------------------------------------------------------------------------
(* Properties of the value codec (checked under CodecSpec) *)

\* The values the format can carry.
ValidValue(x) ==
    CASE x.kind = "Digital" -> x.Index <= 4095
      [] x.kind = "Analog"  -> x.Index <= 1023 /\ x.Value <= 65535
      [] x.kind = "Serial"  -> /\ x.Index <= 1023
                               /\ Len(x.Value) <= 252
                               /\ \A j \in 1..Len(x.Value) : x.Value[j] # 255
      [] OTHER -> TRUE

\* C2: for every AnalogTransition with index in [0,1023] and value in [0,65535],
\* MarshalBinary succeeds and UnmarshalBinary of its 4 bytes succeeds and yields
\* the same index and the same value.
C2_AnalogRoundTrip ==
    (t.kind = "Analog" /\ ValidValue(t)) =>
        /\ pc = "marshalled" => merr = NoError
        /\ pc = "roundtrip" => (uerr = NoError /\ u.Index = t.Index /\ u.Value = t.Value)

\* C3: for every valid DigitalTransition and every valid SerialTransition,
\* MarshalBinary succeeds and UnmarshalBinary of its output succeeds and yields a
\* value equal to the original.
C3_DigitalSerialRoundTrip ==
    (t.kind \in {"Digital", "Serial"} /\ ValidValue(t)) =>
        /\ pc = "marshalled" => merr = NoError
        /\ pc = "roundtrip" => (uerr = NoError /\ u = t)

\* C3 witness: a 252-byte payload on the highest serial index came back unchanged.
C3_Witness ==
    /\ pc = "roundtrip"
    /\ t.kind = "Serial"
    /\ t.Index = 1023
    /\ Len(t.Value) = 252
    /\ uerr = NoError
    /\ u = t

\* C8: MarshalBinary accepts exactly the valid values: Digital succeeds for index
\* <= 4095 and returns ErrIndexRange above; Analog and Serial succeed for index
\* <= 1023 and return ErrIndexRange above; Serial with a valid index returns
\* ErrSerialLength for more than 252 bytes and ErrSerialInvalidByte for at most 252
\* bytes holding a 0xFF; on every error no bytes are returned.
C8_EncodeAcceptsExactlyValid ==
    pc = "marshalled" =>
        /\ merr # NoError => buf = <<>>
        /\ t.kind = "Digital" =>
              IF t.Index <= 4095 THEN merr = NoError /\ Len(buf) = 2
              ELSE merr = ErrIndexRange
        /\ t.kind = "Analog" =>
              IF t.Index <= 1023 THEN merr = NoError /\ Len(buf) = 4
              ELSE merr = ErrIndexRange
        /\ t.kind = "Serial" =>
              IF t.Index > 1023 THEN merr = ErrIndexRange
              ELSE IF Len(t.Value) >= 253 THEN merr = ErrSerialLength
              ELSE IF \E j \in 1..Len(t.Value) : t.Value[j] = 255
                   THEN merr = ErrSerialInvalidByte
              ELSE merr = NoError /\ Len(buf) = Len(t.Value) + 3

\* C8 witness: a 252-byte payload was accepted on index 1023.
C8_Witness ==
    /\ pc = "marshalled"
    /\ t.kind = "Serial"
    /\ t.Index = 1023
    /\ Len(t.Value) = 252
    /\ merr = NoError
    /\ Len(buf) = 255

\* the serial header of a buffer of at least 2 bytes is wrong
BadSerialHeader(b) == BitAnd(b[1], 248) # 200 \/ BitAnd(b[2], 128) # 0

\* C9 as stated: SerialTransition UnmarshalBinary fails with ErrDecodeLength when
\* the buffer has fewer than 3 bytes or does not end in 0xFF, and returns
\* ErrDecodeIllegal only for a buffer of at least 3 bytes ending in 0xFF whose
\* header is wrong.
C9_AsStated ==
    (pc \in {"decoded", "roundtrip"} /\ t.kind = "Serial") =>
        /\ (Len(buf) < 3 \/ buf[Len(buf)] # 255) => uerr = ErrDecodeLength
        /\ uerr = ErrDecodeIllegal =>
              (Len(buf) >= 3 /\ buf[Len(buf)] = 255 /\ BadSerialHeader(buf))

\* C9 amended: SerialTransition UnmarshalBinary fails with ErrDecodeLength exactly
\* when the buffer has fewer than 3 bytes; a buffer of at least 3 bytes fails with
\* ErrDecodeIllegal when its last byte is not 0xFF or its header is wrong, and
\* ErrDecodeIllegal is returned in no other case.
C9_SerialDecodeErrors ==
    (pc \in {"decoded", "roundtrip"} /\ t.kind = "Serial") =>
        /\ uerr = ErrDecodeLength <=> Len(buf) < 3
        /\ uerr = ErrDecodeIllegal <=>
              (Len(buf) >= 3 /\ (buf[Len(buf)] # 255 \/ BadSerialHeader(buf)))

\* C9 witness: a buffer of 3 bytes with a good header and no sentinel was rejected
\* as illegal.
C9_Witness ==
    /\ pc = "decoded"
    /\ t.kind = "Serial"
    /\ Len(buf) >= 3
    /\ buf[Len(buf)] # 255
    /\ ~BadSerialHeader(buf)
    /\ uerr = ErrDecodeIllegal

----------------------------------------------------------------------------
(* Properties of the stream decoder (checked under Spec) *)

\* the step is a Decode call
DecodeStep == calls' = calls + 1

\* the step is a Decode call that gets as far as the Peek
PeekingStep == DecodeStep /\ d_r = "reader" /\ d_err = NoError

\* C1: whenever the peeked byte matches none of the five kind patterns, the call
\* returns ErrDecodeIllegal.
C1_UnmatchedByteIsIllegal ==
    [][(PeekingStep /\ Len(src) >= 1 /\ KindOf(src[1]) = "none")
          => err' = ErrDecodeIllegal]_vars

\* C4: once d.err holds ErrDecodeIllegal it holds it for ever, and every later
\* Decode call returns that error with no value and leaves the source untouched.
C4_StickyFailure ==
    [][d_err = ErrDecodeIllegal =>
          /\ d_err' = ErrDecodeIllegal
          /\ DecodeStep => (err' = ErrDecodeIllegal /\ v'.kind = "nil" /\ src' = src)]_vars

\* C4 witness: the decoder was poisoned by ErrDecodeIllegal, and a later call
\* returned the sticky error although a whole digital frame is waiting.
C4_Witness ==
    /\ d_err = ErrDecodeIllegal
    /\ calls >= 2
    /\ err = ErrDecodeIllegal
    /\ v.kind = "nil"
    /\ Len(src) >= 2
    /\ SubSeq(src, 1, 2) = <<128, 0>>

RECURSIVE Wire(_)
\* the concatenation of the encodings of a sequence of values
Wire(xs) ==
    IF xs = <<>> THEN <<>>
    ELSE MarshalBinary(Head(xs)).buf \o Wire(Tail(xs))

\* the bytes of the frame at the head of s, by the kind's framing rule
FrameLen(k, s) ==
    CASE k = "Clear"   -> 1
      [] k = "Refresh" -> 1
      [] k = "Digital" -> 2
      [] k = "Analog"  -> 4
      [] k = "Serial"  -> CHOOSE n \in 1..Len(s) :
                              s[n] = 255 /\ \A j \in 1..(n - 1) : s[j] # 255

\* C5: when only whole encodings of valid values were written and no call failed
\* so far, the k-th Decode call (k no more than the values written) returns
\* without error a value of the k-th value's kind, consumes exactly that frame's
\* bytes, and leaves the source at the first byte of the (k+1)-th encoding.
C5_FramesInOrder ==
    [][(PeekingStep /\ ~raw /\ calls < Len(sent)) =>
          /\ err' = NoError
          /\ v'.kind = sent[calls + 1].kind
          /\ Len(src) - Len(src') = FrameLen(sent[calls + 1].kind, src)
          /\ src' = Wire(SubSeq(sent, calls + 2, Len(sent)))]_vars

\* C5 witness: a digital, an analog and a serial value were written and the third
\* call returned the serial one, leaving the source empty.
C5_Witness ==
    /\ ~raw
    /\ Len(sent) = 3
    /\ sent[1].kind = "Digital"
    /\ sent[2].kind = "Analog"
    /\ sent[3].kind = "Serial"
    /\ calls = 3
    /\ err = NoError
    /\ v.kind = "Serial"
    /\ src = <<>>

\* the source ends after the first byte of a multi-byte frame and before its end
Truncated(s) ==
    LET k == KindOf(s[1])
    IN \/ k = "Digital" /\ Len(s) < 2
       \/ k = "Analog" /\ Len(s) < 4
       \/ k = "Serial" /\ \A j \in 1..Len(s) : s[j] # 255

\* C6: the error of a call that finds the source ending inside a Digital, Analog
\* or Serial frame differs from the error of a call that finds the source ended
\* at a frame boundary.
C6_TruncationIsNotEndOfStream ==
    [][(PeekingStep /\ Len(src) >= 1 /\ Truncated(src)) =>
          /\ err' # NoError
          /\ err' # DecodeCall(NoError, <<>>).err]_vars

\* C7: a call that finds the source exhausted at the Peek leaves the sticky error
\* clean.
C7_EndOfStreamNotSticky ==
    [][(PeekingStep /\ src = <<>>) => d_err' = NoError]_vars

\* C10: no Decode call returns ErrDecodeLength, nor records it as the sticky error.
C10_NeverShortBuffer ==
    err # ErrDecodeLength /\ d_err # ErrDecodeLength

============================================================================
